---- MODULE Spec2Model ----
(***************************************************************************)
(* Model of the journey classifier and formatter of the TGV Times          *)
(* dashboard (src/src/frontend/utils.py), of the callers that drive them   *)
(* and of the reload logic (src/src/frontend/app.py), of the Journey       *)
(* Source client (src/src/backend/sncf_api.py), of the logging             *)
(* configuration (src/src/config/logger.py) and of check_connection        *)
(* (src/src/data/scripts/manage_stations.py).                              *)
(*                                                                         *)
(* Python values.  A dict is a record whose fields are Missing (the key is *)
(* absent), None (the key maps to null) or Val(x).  A str on which the     *)
(* code only tests equality is a TLA+ string; a str the code lowers or     *)
(* searches is a tuple of one-character strings.                           *)
(***************************************************************************)
EXTENDS Integers, Sequences, FiniteSets, TLC

VARIABLES journeys, pc, provider_filter, filtered, kept, sort_by, df, full,
          tiebreak, runs

\* SNCFAPIClient (sncf_api.py): the arguments of the call, the requests it
\* sent to the Journey Source and its outcome.
VARIABLES stations, train_number, requests, result

\* main (app.py): st.session_state, the widgets of the current rerun, what
\* the rerun rendered, whether it queried the Journey Source and how the
\* most recent load ended.
VARIABLES session_state, current_settings, search_clicked, rendered, queried,
          last_load

\* LoggerConfig (logger.py): where each thread is in get_logger, how many
\* get_logger calls it has finished, LoggerConfig._configured, the handlers
\* of the root logger and the copies written of the last line logged.
VARIABLES thread_pc, calls, configured, handlers, emitted

\* check_connection (manage_stations.py): the value returned.
VARIABLES connection

utilsVars == <<journeys, pc, provider_filter, filtered, kept, sort_by, df, full,
               tiebreak, runs>>

clientVars == <<stations, train_number, requests, result>>

appVars == <<session_state, current_settings, search_clicked, rendered, queried,
             last_load>>

loggerVars == <<thread_pc, calls, configured, handlers, emitted>>

vars == <<utilsVars, clientVars, appVars, loggerVars, connection>>

-----------------------------------------------------------------------------
(* Python values                                                           *)

Missing == [t |-> "missing"]
None == [t |-> "none"]
Val(x) == [t |-> "val", v |-> x]

\* x is a value: neither an absent key nor null.
IsVal(x) == x.t = "val"

\* dict.get(key, default): the default only replaces an absent key; a key
\* that maps to null yields None.
get(d, key, default) == IF d[key] = Missing THEN default ELSE d[key]

\* bool(x) of an optional str: None and "" are falsy.
truthy(x) == x # None /\ x # Missing /\ x.v # ""

UpperCase == <<"A","B","C","D","E","F","G","H","I","J","K","L","M",
               "N","O","P","Q","R","S","T","U","V","W","X","Y","Z">>
LowerCase == <<"a","b","c","d","e","f","g","h","i","j","k","l","m",
               "n","o","p","q","r","s","t","u","v","w","x","y","z">>

\* str.lower() on one character.
lower_char(c) ==
    IF \E i \in 1..26 : UpperCase[i] = c
    THEN LowerCase[CHOOSE i \in 1..26 : UpperCase[i] = c]
    ELSE c

\* str.lower()
lower(s) == [i \in 1..Len(s) |-> lower_char(s[i])]

\* str.upper(), for the letters of the alphabet.
upper(s) ==
    [i \in 1..Len(s) |->
        IF \E k \in 1..26 : LowerCase[k] = s[i]
        THEN UpperCase[CHOOSE k \in 1..26 : LowerCase[k] = s[i]]
        ELSE s[i]]

\* Python's `sub in s` on str.
contains(sub, s) ==
    \E i \in 1..(Len(s) - Len(sub) + 1) : SubSeq(s, i, i + Len(sub) - 1) = sub

-----------------------------------------------------------------------------
(* Literals of the code                                                    *)

GrandeVitesse == <<"g","r","a","n","d","e"," ","v","i","t","e","s","s","e">>
HighSpeed == <<"h","i","g","h"," ","s","p","e","e","d">>
PublicTransport == "public_transport"
All == "All"

NA == "N/A"

-----------------------------------------------------------------------------
(* Journey records of the Navitia API, as the code reads them              *)

\* A timestamp "202401DDTHHMMSS" is the tuple <<DD, HH, MM, SS>>.
TS(d, h, m, s) == <<d, h, m, s>>

\* display_informations
DisplayInfo(pm, cm, hs) ==
    [physical_mode |-> pm, commercial_mode |-> cm, headsign |-> hs]

\* The {} that section.get("display_informations", {}) falls back to.
EmptyDict == DisplayInfo(Missing, Missing, Missing)

\* A stop ("from" / "to"): {"stop_point": {"name": ...}}
Stop(name) == [stop_point |-> Val([name |-> Val(name)])]
EmptyStop == [stop_point |-> Missing]
EmptyStopPoint == [name |-> Missing]

SectionOf(type, di, times) ==
    [type |-> type,
     display_informations |-> di,
     from |-> times.from,
     to |-> times.to,
     base_departure_date_time |-> times.base_departure_date_time,
     departure_date_time |-> times.departure_date_time,
     base_arrival_date_time |-> times.base_arrival_date_time,
     arrival_date_time |-> times.arrival_date_time]

JourneyOf(nb, secs, dep, arr, dur) ==
    [nb_transfers |-> nb,
     sections |-> secs,
     departure_date_time |-> dep,
     arrival_date_time |-> arr,
     duration |-> dur]

-----------------------------------------------------------------------------
(* Input domain                                                            *)

\* Longest journey list a caller passes.
MaxJourneys == 2

TrainGrandeVitesse ==
    <<"T","r","a","i","n"," ","g","r","a","n","d","e"," ",
      "v","i","t","e","s","s","e">>
TRAIN_GRANDE_VITESSE ==
    <<"T","R","A","I","N"," ","G","R","A","N","D","E"," ",
      "V","I","T","E","S","S","E">>
High_Speed == <<"H","i","g","h"," ","S","p","e","e","d">>
TrainRegional ==
    <<"T","r","a","i","n"," ","r","e","g","i","o","n","a","l"," ",
      "/"," ","T","E","R">>

\* Section times of the scenario of spec section 8: scheduled 08:00,
\* actual 08:07, no scheduled arrival.
ScenarioTimes ==
    [from |-> Val(Stop("Paris Gare de Lyon")),
     to |-> Val(Stop("Lyon Part-Dieu")),
     base_departure_date_time |-> Val(TS(1, 8, 0, 0)),
     departure_date_time |-> Val(TS(1, 8, 7, 0)),
     base_arrival_date_time |-> Missing,
     arrival_date_time |-> Missing]

PT(di) == SectionOf(Val(PublicTransport), di, ScenarioTimes)
HS(pm, cm) == PT(Val(DisplayInfo(Val(pm), cm, Val("6611"))))

Inoui == HS(TrainGrandeVitesse, Val("TGV INOUI"))
Ouigo == HS(TRAIN_GRANDE_VITESSE, Val("OUIGO"))
Ter == HS(TrainRegional, Val("TER"))
Walk == SectionOf(Val("street_network"), Missing, ScenarioTimes)

\* The values of "sections" the classifier is run on.
SectionLists ==
    { Missing, None, Val(<<>>),
      Val(<<Inoui>>),
      Val(<<Ouigo>>),
      Val(<<HS(High_Speed, Missing)>>),
      Val(<<HS(TrainGrandeVitesse, None)>>),
      Val(<<HS(TrainGrandeVitesse, Val("ouigo"))>>),
      Val(<<Ter>>),
      Val(<<Walk>>),
      Val(<<Walk, Ouigo>>),
      Val(<<Ter, Ouigo>>),
      Val(<<Inoui, Ouigo>>),
      Val(<<SectionOf(Missing, Inoui.display_informations, ScenarioTimes)>>),
      Val(<<SectionOf(None, Inoui.display_informations, ScenarioTimes), Ouigo>>),
      Val(<<PT(Missing)>>),
      Val(<<PT(None)>>),
      Val(<<PT(Val(DisplayInfo(Missing, Val("OUIGO"), Val("7601"))))>>),
      Val(<<PT(Val(DisplayInfo(None, Val("OUIGO"), Val("7601"))))>>) }

NbTransfers == {Missing, None, Val(0), Val(1)}

Scenario(nb, secs) ==
    JourneyOf(nb, secs, Val(TS(1, 8, 7, 0)), Val(TS(1, 10, 0, 0)), Val(6780))

\* The journeys the classifier is run on: the scenario with every value of
\* nb_transfers and with every value of sections.
ClassifierJourneys ==
    { Scenario(nb, Val(<<Inoui>>)) : nb \in NbTransfers }
    \cup { Scenario(Val(0), secs) : secs \in SectionLists }
    \cup { Scenario(None, None) }

\* Journeys that differ from the scenario in when they run.
Timetable ==
    { JourneyOf(Val(0), Val(<<Inoui>>), Val(TS(1, 7, 0, 0)), Val(TS(1, 11, 0, 0)), Val(14400)),
      JourneyOf(Val(0), Val(<<Ouigo>>), Val(TS(1, 23, 50, 0)), Val(TS(2, 1, 45, 30)), Val(6930)),
      JourneyOf(Val(0), Val(<<Ouigo>>), Val(TS(2, 0, 10, 0)), Val(TS(2, 1, 40, 0)), Val(5400)) }

\* The journeys the formatter is run on: the scenario, the timetable, a
\* journey with a transfer, one with no public_transport section, and two
\* the formatter cannot read (null sections, no departure_date_time).
FormatterJourneys ==
    { Scenario(Val(0), Val(<<Inoui>>)),
      Scenario(Val(1), Val(<<Ter, Ouigo>>)),
      Scenario(Val(0), Val(<<Walk>>)),
      Scenario(Val(0), None),
      JourneyOf(Val(0), Val(<<Ouigo>>), Missing, Val(TS(1, 10, 0, 0)), Val(6780)) }
    \cup Timetable

SeqsUpTo(S, n) == UNION { [1..k -> S] : k \in 0..n }

\* provider_filter (str | None): None, the "All" sentinel and operator
\* labels of the select box of app.py:165-174, and the empty string.
ProviderFilters == {None, Val(All), Val(""), Val("OUIGO"), Val("TGV INOUI")}

Departure == <<"d","e","p","a","r","t","u","r","e">>
Arrival == <<"a","r","r","i","v","a","l">>
ArrivalCapital == <<"A","r","r","i","v","a","l">>

SortBys == {Departure, Arrival, ArrivalCapital}

\* A timestamp str that strptime rejects: "20240132T080000".
Unparseable == TS(32, 8, 0, 0)

\* Values of the four times of a section, around a scheduled departure at
\* 08:00:00 and a scheduled arrival at 10:00:00.  Val(<<>>) is the empty str.
BaseDepartures == {Missing, None, Val(<<>>), Val(TS(1, 8, 0, 0)), Val(Unparseable)}

ActualDepartures ==
    {Missing, None, Val(Unparseable),
     Val(TS(1, 8, 0, 0)), Val(TS(1, 8, 5, 0)), Val(TS(1, 8, 5, 59)),
     Val(TS(1, 8, 6, 0)), Val(TS(1, 8, 7, 0)),
     Val(TS(1, 7, 59, 30)), Val(TS(1, 7, 58, 30)), Val(TS(1, 7, 54, 0))}

BaseArrivals == {Missing, None, Val(TS(1, 10, 0, 0)), Val(Unparseable)}

ActualArrivals ==
    {Missing, Val(TS(1, 10, 0, 0)), Val(TS(1, 10, 5, 0)), Val(TS(1, 10, 6, 0)),
     Val(TS(1, 9, 58, 30))}

\* A TGV INOUI section with the given scheduled and actual times.
Timed(bd, ad, ba, aa) ==
    SectionOf(Val(PublicTransport), Inoui.display_informations,
              [ScenarioTimes EXCEPT !.base_departure_date_time = bd,
                                    !.departure_date_time = ad,
                                    !.base_arrival_date_time = ba,
                                    !.arrival_date_time = aa])

OnTime == Timed(Val(TS(1, 8, 0, 0)), Val(TS(1, 8, 0, 0)),
                Val(TS(1, 10, 0, 0)), Val(TS(1, 10, 0, 0)))

\* The scenario with every combination of section times, and with the
\* section on time before or after sections that are late.
DelayJourneys ==
    { Scenario(Val(0), Val(<<Timed(bd, ad, ba, aa)>>)) :
        bd \in BaseDepartures, ad \in ActualDepartures,
        ba \in BaseArrivals, aa \in ActualArrivals }
    \cup { Scenario(Val(0), Val(<<Walk, OnTime>>)),
           Scenario(Val(0), Val(<<OnTime, Inoui>>)),
           Scenario(Val(0), Val(<<Walk, Inoui, OnTime>>)) }

DurationMinutes ==
    {0, 1, 9, 10, 59, 60, 61, 113, 119, 120, 599, 600, 1439, 1440, 6000}

\* journey["duration"] in seconds: whole minutes, and minutes with 1 and 59
\* leftover seconds.
Durations == { 60 * m + sec : m \in DurationMinutes, sec \in {0, 1, 59} }

\* The scenario with every duration, with a null duration and without one.
DurationJourneys ==
    { JourneyOf(Val(0), Val(<<Inoui>>), Val(TS(1, 8, 7, 0)), Val(TS(1, 10, 0, 0)), dur) :
        dur \in { Val(d) : d \in Durations } \cup {Missing, None} }

\* A public_transport section of the scenario without one of the fields the
\* formatter shows, or with the field null.
FieldSections ==
    { SectionOf(Val(PublicTransport), Inoui.display_informations,
                [ScenarioTimes EXCEPT !.from = stop]) :
        stop \in { Missing, None, Val(EmptyStop), Val([stop_point |-> None]),
                   Val([stop_point |-> Val(EmptyStopPoint)]) } }
    \cup { SectionOf(Val(PublicTransport), Inoui.display_informations,
                     [ScenarioTimes EXCEPT !.to = stop]) :
             stop \in { Missing, Val(EmptyStop) } }
    \cup { PT(di) :
             di \in { Missing, None,
                      Val(DisplayInfo(Val(TrainGrandeVitesse), Val("TGV INOUI"), Missing)),
                      Val(DisplayInfo(Val(TrainGrandeVitesse), Missing, Val("6611"))),
                      Val(EmptyDict) } }

\* The scenario with no sections, with no public_transport section, and
\* with a public_transport section that lacks a field.
FieldJourneys ==
    { Scenario(Val(0), secs) : secs \in {Missing, Val(<<>>), Val(<<Walk>>), Val(<<Walk, Walk>>)} }
    \cup { Scenario(Val(0), Val(<<sec>>)) : sec \in FieldSections }
    \cup { Scenario(Val(0), Val(<<Walk, sec>>)) : sec \in FieldSections }

\* The scenario without departure_date_time or arrival_date_time, or with
\* one that is null or does not parse.
MalformedJourneys ==
    { JourneyOf(Val(0), Val(<<Inoui>>), dep, Val(TS(1, 10, 0, 0)), Val(6780)) :
        dep \in {Missing, None, Val(Unparseable)} }
    \cup { JourneyOf(Val(0), Val(<<Inoui>>), Val(TS(1, 8, 7, 0)), arr, Val(6780)) :
             arr \in {Missing, None, Val(Unparseable)} }

\* The journeys the formatter is run on one at a time.
RecordJourneys ==
    DelayJourneys \cup DurationJourneys \cup FieldJourneys \cup MalformedJourneys

\* Most calls of the two functions in a row.
MaxRuns == 3

\* The journeys, provider filters and sort orders of repeated calls.
PipelineJourneys ==
    { Scenario(Val(0), Val(<<Inoui>>)),
      Scenario(Val(0), Val(<<Ouigo>>)),
      JourneyOf(Val(0), Val(<<Inoui>>), Val(TS(1, 7, 0, 0)), Val(TS(1, 11, 0, 0)), Val(14400)),
      JourneyOf(Val(0), Val(<<Ouigo>>), Val(TS(1, 9, 0, 0)), Missing, Val(6780)),
      Scenario(Val(0), None) }

PipelineFilters == {None, Val("OUIGO")}

PipelineSortBys == {Departure, Arrival}

-----------------------------------------------------------------------------
(* filter_tgv_journeys (utils.py:113-157)                                  *)

\* Mutant of FilterActive: only None disables the filter, so that "All" is
\* taken for an operator label.
FilterActive_OnlyNone(pf) == pf # None

\* utils.py:150, the test that decides whether the provider filter applies.
FilterActive(pf) == truthy(pf) /\ pf # Val(All)

\* Mutant of physical_mode: the mode is compared as written, not lowered.
physical_mode_NotLowered(raw) == raw

\* utils.py:142: the physical mode the test is run on, given the str that
\* display_info.get("physical_mode", "") returned.
physical_mode(raw) == lower(raw)

\* utils.py:146
is_high_speed(mode) ==
    contains(GrandeVitesse, mode) \/ contains(HighSpeed, mode)

\* Mutant of Appends: the provider filter is not applied.
Appends_AnyProvider(display_info, mode, pf) ==
    IF is_high_speed(mode) THEN 1 ELSE 0

\* utils.py:148-154: what the first public_transport section appends to
\* `filtered`: 1 when the journey is appended, 0 when it is not.
Appends(display_info, mode, pf) ==
    IF is_high_speed(mode)
    THEN IF FilterActive(pf)
         THEN IF get(display_info, "commercial_mode", None) = pf THEN 1 ELSE 0
         ELSE 1
    ELSE 0

\* Mutant of ScanSections: a public_transport section that appends nothing
\* does not end the loop, so that any later public_transport section may
\* still qualify the journey (the any() of check_connection).
RECURSIVE ScanSections_AnySection(_, _, _)
ScanSections_AnySection(sections, i, pf) ==
    IF i > Len(sections) THEN [raised |-> FALSE, n |-> 0]
    ELSE LET section == sections[i] IN
         IF get(section, "type", None) # Val(PublicTransport)
         THEN ScanSections_AnySection(sections, i + 1, pf)
         ELSE LET display_info == get(section, "display_informations", Val(EmptyDict)) IN
              IF display_info = None THEN [raised |-> TRUE, n |-> 0]
              ELSE LET pm == get(display_info.v, "physical_mode", Val(<<>>)) IN
                   IF pm = None THEN [raised |-> TRUE, n |-> 0]
                   ELSE IF Appends(display_info.v, physical_mode(pm.v), pf) = 0
                        THEN ScanSections_AnySection(sections, i + 1, pf)
                        ELSE [raised |-> FALSE, n |-> 1]

\* utils.py:139-155: the loop over the sections of one journey, from section
\* i on.  The result is [raised, n]: whether an exception left the loop, and
\* how many times the journey was appended.  None.get(...) and None.lower()
\* raise AttributeError.
RECURSIVE ScanSections(_, _, _)
ScanSections(sections, i, pf) ==
    IF i > Len(sections) THEN [raised |-> FALSE, n |-> 0]
    ELSE LET section == sections[i] IN
         IF get(section, "type", None) # Val(PublicTransport)
         THEN ScanSections(sections, i + 1, pf)
         ELSE LET display_info == get(section, "display_informations", Val(EmptyDict)) IN
              IF display_info = None THEN [raised |-> TRUE, n |-> 0]
              ELSE LET pm == get(display_info.v, "physical_mode", Val(<<>>)) IN
                   IF pm = None THEN [raised |-> TRUE, n |-> 0]
                   ELSE [raised |-> FALSE,
                         n |-> Appends(display_info.v, physical_mode(pm.v), pf)]

\* Mutant of ClassifyJourney: journeys with transfers are not skipped.
ClassifyJourney_IgnoresTransfers(j, pf) ==
    LET sections == get(j, "sections", Val(<<>>)) IN
    IF sections = None THEN [raised |-> TRUE, n |-> 0]
    ELSE ScanSections(sections.v, 1, pf)

\* Mutant of ClassifyJourney: nb_transfers is read without the default 0,
\* so that a journey without the field is skipped.
ClassifyJourney_NoDefault(j, pf) ==
    IF get(j, "nb_transfers", None) # Val(0) THEN [raised |-> FALSE, n |-> 0]
    ELSE LET sections == get(j, "sections", Val(<<>>)) IN
         IF sections = None THEN [raised |-> TRUE, n |-> 0]
         ELSE ScanSections(sections.v, 1, pf)

\* utils.py:134-155: the body of the loop for one journey.  Iterating over
\* None raises TypeError.
ClassifyJourney(j, pf) ==
    IF get(j, "nb_transfers", Val(0)) # Val(0) THEN [raised |-> FALSE, n |-> 0]
    ELSE LET sections == get(j, "sections", Val(<<>>)) IN
         IF sections = None THEN [raised |-> TRUE, n |-> 0]
         ELSE ScanSections(sections.v, 1, pf)

\* Mutant of FilterFrom: a qualifying journey is inserted at the front of
\* `filtered`, not appended.
RECURSIVE FilterFrom_Prepends(_, _, _, _)
FilterFrom_Prepends(js, i, pf, acc) ==
    IF i > Len(js) THEN [raised |-> FALSE, kept |-> acc]
    ELSE LET r == ClassifyJourney(js[i], pf) IN
         IF r.raised THEN [raised |-> TRUE, kept |-> acc]
         ELSE FilterFrom_Prepends(js, i + 1, pf, [k \in 1..r.n |-> i] \o acc)

\* utils.py:132-157: the loop over the journeys from position i on, with the
\* positions appended so far.  The result is [raised, kept]: kept lists, in
\* append order, the positions of the input whose journey was appended.
RECURSIVE FilterFrom(_, _, _, _)
FilterFrom(js, i, pf, acc) ==
    IF i > Len(js) THEN [raised |-> FALSE, kept |-> acc]
    ELSE LET r == ClassifyJourney(js[i], pf) IN
         IF r.raised THEN [raised |-> TRUE, kept |-> acc]
         ELSE FilterFrom(js, i + 1, pf, acc \o [k \in 1..r.n |-> i])

\* Mutant of filter_tgv_journeys: the journeys that qualify are moved out
\* of the caller's list into the result.
filter_tgv_journeys_Consumes(js, pf) ==
    LET r == FilterFrom(js, 1, pf, <<>>)
        keeps == {r.kept[k] : k \in 1..Len(r.kept)}
    IN
    [raised |-> r.raised,
     kept |-> r.kept,
     filtered |-> [k \in 1..Len(r.kept) |-> js[r.kept[k]]],
     journeys |-> IF r.raised THEN js
                  ELSE SelectSeq([i \in 1..Len(js) |-> IF i \in keeps THEN None ELSE js[i]],
                                 LAMBDA j : j # None)]

\* filter_tgv_journeys(journeys, provider_filter): [raised, kept, filtered,
\* journeys], where filtered is the returned list and journeys is the
\* caller's list as the call leaves it (the code only reads it).
filter_tgv_journeys(js, pf) ==
    LET r == FilterFrom(js, 1, pf, <<>>) IN
    [raised |-> r.raised,
     kept |-> r.kept,
     filtered |-> [k \in 1..Len(r.kept) |-> js[r.kept[k]]],
     journeys |-> js]

-----------------------------------------------------------------------------
(* calculate_delay_minutes and format_journey_data (utils.py:8-103)        *)

\* datetime.strptime(ts, "%Y%m%dT%H%M%S") accepts ts.
Parses(ts) ==
    /\ Len(ts) = 4
    /\ ts[1] \in 1..31
    /\ ts[2] \in 0..23
    /\ ts[3] \in 0..59
    /\ ts[4] \in 0..59

\* The parsed instant, in seconds since the start of day 0 of the month.
strptime(ts) == ((ts[1] * 24 + ts[2]) * 60 + ts[3]) * 60 + ts[4]

Digit == <<"0","1","2","3","4","5","6","7","8","9">>

\* format(n, "02d") for 0 <= n < 100.
TwoDigits(n) == <<Digit[(n \div 10) + 1], Digit[(n % 10) + 1]>>

\* str(n) for an int.
RECURSIVE Decimal(_)
Decimal(n) ==
    IF n < 0 THEN <<"-">> \o Decimal(-n)
    ELSE IF n < 10 THEN <<Digit[n + 1]>>
    ELSE Decimal(n \div 10) \o <<Digit[(n % 10) + 1]>>

\* format(n, "02d") for an int.
Pad2(n) == IF n \in 0..9 THEN <<"0">> \o Decimal(n) ELSE Decimal(n)

\* datetime.strftime("%H:%M") of the timestamp ts.
strftime_HM(ts) == TwoDigits(ts[2]) \o <<":">> \o TwoDigits(ts[3])

\* Mutant of int_div60: the quotient is floored, as x // 60 does.
int_div60_Floor(x) == x \div 60

\* int(x / 60) of utils.py:13: the quotient truncated toward zero.
int_div60(x) == IF x >= 0 THEN x \div 60 ELSE -((-x) \div 60)

\* calculate_delay_minutes(scheduled_time, actual_time), both parseable.
calculate_delay_minutes(scheduled_time, actual_time) ==
    int_div60(strptime(actual_time) - strptime(scheduled_time))

\* bool(x) of an optional timestamp str.
truthy_ts(x) == IsVal(x) /\ x.v # <<>>

\* utils.py:64-67: one delay; [raised, delay].  strptime raises ValueError
\* on a string it cannot parse.
DelayOf(base, actual) ==
    IF truthy_ts(base) /\ truthy_ts(actual)
    THEN IF Parses(base.v) /\ Parses(actual.v)
         THEN [raised |-> FALSE, delay |-> calculate_delay_minutes(base.v, actual.v)]
         ELSE [raised |-> TRUE, delay |-> 0]
    ELSE [raised |-> FALSE, delay |-> 0]

\* The delays of a journey with no public_transport section (utils.py:52-53).
NoDelays == [raised |-> FALSE, departure_delay |-> 0, arrival_delay |-> 0]

\* Mutant of Delays: the delays are computed only when all four times of
\* the section are there.
Delays_AllOrNothing(section) ==
    LET base_departure == get(section, "base_departure_date_time", None)
        actual_departure == get(section, "departure_date_time", None)
        base_arrival == get(section, "base_arrival_date_time", None)
        actual_arrival == get(section, "arrival_date_time", None)
        d == DelayOf(base_departure, actual_departure)
        a == DelayOf(base_arrival, actual_arrival)
    IN IF /\ truthy_ts(base_departure) /\ truthy_ts(actual_departure)
          /\ truthy_ts(base_arrival) /\ truthy_ts(actual_arrival)
       THEN [raised |-> d.raised \/ a.raised,
             departure_delay |-> d.delay,
             arrival_delay |-> a.delay]
       ELSE NoDelays

\* utils.py:58-67: the two delays of the public_transport section;
\* [raised, departure_delay, arrival_delay].
Delays(section) ==
    LET base_departure == get(section, "base_departure_date_time", None)
        actual_departure == get(section, "departure_date_time", None)
        base_arrival == get(section, "base_arrival_date_time", None)
        actual_arrival == get(section, "arrival_date_time", None)
        d == DelayOf(base_departure, actual_departure)
        a == DelayOf(base_arrival, actual_arrival)
    IN [raised |-> d.raised \/ a.raised,
        departure_delay |-> d.delay,
        arrival_delay |-> a.delay]

\* utils.py:44-45: section.get(end, {}).get("stop_point", {}).get("name",
\* "N/A"); [raised, name].
StationName(section, end) ==
    LET stop == get(section, end, Val(EmptyStop)) IN
    IF stop = None THEN [raised |-> TRUE, name |-> None]
    ELSE LET stop_point == get(stop.v, "stop_point", Val(EmptyStopPoint)) IN
         IF stop_point = None THEN [raised |-> TRUE, name |-> None]
         ELSE [raised |-> FALSE, name |-> get(stop_point.v, "name", Val(NA))]

\* Mutant of DisplayField: the key is read without the "N/A" default.
DisplayField_NoDefault(section, key) ==
    LET display_info == get(section, "display_informations", Val(EmptyDict)) IN
    IF display_info = None THEN [raised |-> TRUE, value |-> None]
    ELSE [raised |-> FALSE, value |-> get(display_info.v, key, None)]

\* utils.py:46-47: section.get("display_informations", {}).get(key, "N/A");
\* [raised, value].
DisplayField(section, key) ==
    LET display_info == get(section, "display_informations", Val(EmptyDict)) IN
    IF display_info = None THEN [raised |-> TRUE, value |-> None]
    ELSE [raised |-> FALSE, value |-> get(display_info.v, key, Val(NA))]

\* The index of the first section of type public_transport, 0 if none
\* (the loops of utils.py:42-48 and utils.py:56-68 stop at it).
first_public_transport(sections) ==
    IF \E k \in 1..Len(sections) : get(sections[k], "type", None) = Val(PublicTransport)
    THEN CHOOSE k \in 1..Len(sections) :
             /\ get(sections[k], "type", None) = Val(PublicTransport)
             /\ \A m \in 1..(k - 1) :
                    get(sections[m], "type", None) # Val(PublicTransport)
    ELSE 0

\* Mutant of StatusOf: a delay of 5 minutes is already Delayed.
StatusOf_AtLeastFive(departure_delay, arrival_delay) ==
    IF departure_delay >= 5 \/ arrival_delay >= 5 THEN "Delayed" ELSE "On Time"

\* "Delayed" if (departure_delay > 5 or arrival_delay > 5) else "On Time"
StatusOf(departure_delay, arrival_delay) ==
    IF departure_delay > 5 \/ arrival_delay > 5 THEN "Delayed" ELSE "On Time"

\* Mutant of DurationDisplay: the minutes are printed without padding.
DurationDisplay_Unpadded(duration_seconds) ==
    LET duration_minutes == duration_seconds \div 60
        duration_hours == duration_minutes \div 60
        duration_mins == duration_minutes % 60
    IN Decimal(duration_hours) \o <<"h">> \o Decimal(duration_mins)

\* f"{duration_hours}h{duration_mins:02d}" of utils.py:70-83.
DurationDisplay(duration_seconds) ==
    LET duration_minutes == duration_seconds \div 60
        duration_hours == duration_minutes \div 60
        duration_mins == duration_minutes % 60
    IN Decimal(duration_hours) \o <<"h">> \o Pad2(duration_mins)

\* utils.py:27-90: the body of the loop for the journey at index idx;
\* [raised, row].  journey[key] raises KeyError on an absent key, strptime
\* TypeError on None and ValueError on a string it cannot parse, iterating
\* over None TypeError, None.get AttributeError, None // 60 TypeError.
NoRow == [raised |-> TRUE, row |-> <<>>]

RowOf(idx, journey) ==
    LET dep == journey.departure_date_time
        arr == journey.arrival_date_time
        sections == get(journey, "sections", Val(<<>>))
        dur == journey.duration
    IN
    IF ~(IsVal(dep) /\ Parses(dep.v)) THEN NoRow
    ELSE IF ~(IsVal(arr) /\ Parses(arr.v)) THEN NoRow
    ELSE IF sections = None THEN NoRow
    ELSE
    LET k == first_public_transport(sections.v)
        found == k > 0
        section == sections.v[k]
        from == IF found THEN StationName(section, "from")
                ELSE [raised |-> FALSE, name |-> Val(NA)]
        to == IF found THEN StationName(section, "to")
              ELSE [raised |-> FALSE, name |-> Val(NA)]
        train == IF found /\ ~from.raised /\ ~to.raised
                 THEN DisplayField(section, "headsign")
                 ELSE [raised |-> FALSE, value |-> Val(NA)]
        provider == IF found /\ ~from.raised /\ ~to.raised
                    THEN DisplayField(section, "commercial_mode")
                    ELSE [raised |-> FALSE, value |-> Val(NA)]
        delays == IF found THEN Delays(section) ELSE NoDelays
    IN
    IF from.raised \/ to.raised \/ train.raised \/ provider.raised THEN NoRow
    ELSE IF delays.raised THEN NoRow
    ELSE IF ~IsVal(dur) THEN NoRow
    ELSE [raised |-> FALSE,
          row |-> [ID |-> idx,
                   Provider |-> provider.value,
                   Train |-> train.value,
                   From |-> from.name,
                   To |-> to.name,
                   Departure |-> strftime_HM(dep.v),
                   Arrival |-> strftime_HM(arr.v),
                   Duration |-> DurationDisplay(dur.v),
                   DepDelay |-> delays.departure_delay,
                   ArrDelay |-> delays.arrival_delay,
                   Status |-> StatusOf(delays.departure_delay, delays.arrival_delay),
                   _departure_dt |-> strptime(dep.v),
                   _arrival_dt |-> strptime(arr.v)]]

\* utils.py:26-90: the loop from position i on (idx = i - 1); [raised, data].
RECURSIVE RowsFrom(_, _, _)
RowsFrom(js, i, data) ==
    IF i > Len(js) THEN [raised |-> FALSE, data |-> data]
    ELSE LET r == RowOf(i - 1, js[i]) IN
         IF r.raised THEN [raised |-> TRUE, data |-> data]
         ELSE RowsFrom(js, i + 1, Append(data, r.row))

\* utils.py:95: the column the frame is sorted by.
SortColumn(sb) == IF lower(sb) = Arrival THEN "_arrival_dt" ELSE "_departure_dt"

\* The orders in which a sort implementation may leave rows of equal key:
\* tb[i] is the rank, among its equals, of the row at position i.  The
\* identity is the order a stable sort leaves them in.
TieOrders == Permutations(1..MaxJourneys)

StableOrder == [i \in 1..MaxJourneys |-> i]

\* Mutant of sort_values: the rows are ordered by the time of day of the
\* column, as the "%H:%M" display strings would order them.
sort_values_ByTimeOfDay(data, column, tb) ==
    LET n == Len(data)
        key(a) == data[a][column] % 86400
        p == CHOOSE p \in Permutations(1..n) :
                 \A a, b \in 1..n :
                     a < b => \/ key(p[a]) < key(p[b])
                              \/ key(p[a]) = key(p[b]) /\ tb[p[a]] < tb[p[b]]
    IN [k \in 1..n |-> data[p[k]]]

\* df.sort_values(column).reset_index(drop=True): the rows in non-decreasing
\* order of the column.  The default kind="quicksort" is not a stable sort:
\* the order it leaves rows of equal key in is a property of the sort
\* implementation, here tb, and is the same on every call.
sort_values(data, column, tb) ==
    LET n == Len(data)
        p == CHOOSE p \in Permutations(1..n) :
                 \A a, b \in 1..n :
                     a < b => \/ data[p[a]][column] < data[p[b]][column]
                              \/ /\ data[p[a]][column] = data[p[b]][column]
                                 /\ tb[p[a]] < tb[p[b]]
    IN [k \in 1..n |-> data[p[k]]]

\* df.drop(columns=["_departure_dt", "_arrival_dt"]), row by row.
DisplayRow(row) ==
    [ID |-> row.ID, Provider |-> row.Provider, Train |-> row.Train,
     From |-> row.From, To |-> row.To, Departure |-> row.Departure,
     Arrival |-> row.Arrival, Duration |-> row.Duration,
     DepDelay |-> row.DepDelay, ArrDelay |-> row.ArrDelay,
     Status |-> row.Status]

drop_helper_columns(rows) == [k \in 1..Len(rows) |-> DisplayRow(rows[k])]

\* The raising outcome of format_journey_data on the list js.
FormatRaised(js) == [raised |-> TRUE, df |-> <<>>, full |-> <<>>, journeys |-> js]

\* The list js in the order of the rows of the sorted frame.
InRowOrder(js, sorted) == [k \in 1..Len(sorted) |-> js[sorted[k].ID + 1]]

\* Mutant of format_journey_data: the journeys are sorted in place with the
\* frame, so that row and journey line up by position.
format_journey_data_SortsInPlace(js, sb, tb) ==
    LET r == RowsFrom(js, 1, <<>>) IN
    IF r.raised \/ r.data = <<>> THEN FormatRaised(js)
    ELSE LET sorted == sort_values(r.data, SortColumn(sb), tb) IN
         [raised |-> FALSE,
          df |-> drop_helper_columns(sorted),
          full |-> InRowOrder(js, sorted),
          journeys |-> InRowOrder(js, sorted)]

\* Mutant of format_journey_data: the ID column is renumbered after the
\* sort, as reset_index does to the index.
format_journey_data_Renumbers(js, sb, tb) ==
    LET r == RowsFrom(js, 1, <<>>) IN
    IF r.raised \/ r.data = <<>> THEN FormatRaised(js)
    ELSE LET sorted == sort_values(r.data, SortColumn(sb), tb) IN
         [raised |-> FALSE,
          df |-> [k \in 1..Len(sorted) |->
                     [DisplayRow(sorted[k]) EXCEPT !.ID = k - 1]],
          full |-> js,
          journeys |-> js]

\* Mutant of format_journey_data: the second result is a new list of the
\* journeys in the order of the rows; the caller's list is left alone.
format_journey_data_ReturnsSorted(js, sb, tb) ==
    LET r == RowsFrom(js, 1, <<>>) IN
    IF r.raised \/ r.data = <<>> THEN FormatRaised(js)
    ELSE LET sorted == sort_values(r.data, SortColumn(sb), tb) IN
         [raised |-> FALSE,
          df |-> drop_helper_columns(sorted),
          full |-> InRowOrder(js, sorted),
          journeys |-> js]

\* format_journey_data(journeys, sort_by) under a sort implementation of
\* tie order tb: [raised, df, full, journeys], where df and full are the two
\* results and journeys is the caller's list as the call leaves it (the
\* second result is that same list).  An empty frame has no columns, so
\* that sorting it raises KeyError.
format_journey_data(js, sb, tb) ==
    LET r == RowsFrom(js, 1, <<>>) IN
    IF r.raised \/ r.data = <<>> THEN FormatRaised(js)
    ELSE LET sorted == sort_values(r.data, SortColumn(sb), tb) IN
         [raised |-> FALSE,
          df |-> drop_helper_columns(sorted),
          full |-> js,
          journeys |-> js]

-----------------------------------------------------------------------------
(* The Journey Source client (src/src/backend/sncf_api.py)                 *)

\* Station ids of the pool a caller searches.
StationIds == {"paris", "lyon", "marseille"}

\* The section of a train, as search_train_by_number reads it.
TrainSection(di) == [type |-> Val(PublicTransport), display_informations |-> di]

\* The section of a walk to the platform: no display_informations.
WalkSection == [type |-> Val("street_network"), display_informations |-> Missing]

Headsign(hs) == Val([headsign |-> hs])

\* The {} that section.get("display_informations", {}) falls back to.
NoHeadsign == [headsign |-> Missing]

Train(id, secs) == [id |-> id, sections |-> secs]

\* What the Journey Source holds for the journeys from a to b: trains run
\* in both directions, a headsign may hold the number inside a longer text,
\* in another case, or be absent; one section has null display_informations.
SourceJourneys(a, b) ==
    CASE a = "paris" /\ b = "lyon" ->
           << Train(1, Val(<<WalkSection, TrainSection(Headsign(Val(<<"6","6","1","1">>)))>>)),
              Train(2, Val(<<TrainSection(Headsign(Val(<<"I","C","E"," ","9">>)))>>)),
              Train(3, Val(<<TrainSection(Headsign(Missing))>>)) >>
      [] a = "lyon" /\ b = "paris" ->
           << Train(4, Val(<<TrainSection(Headsign(Val(<<"6","6","1","2">>)))>>)),
              Train(5, Val(<<TrainSection(Headsign(Val(<<"i","c","e"," ","9">>)))>>)) >>
      [] a = "paris" /\ b = "marseille" ->
           << Train(6, Val(<<TrainSection(Headsign(Val(<<"6","6","1","1">>))),
                             TrainSection(Headsign(Val(<<"I","C","E"," ","9">>)))>>)),
              Train(7, Missing) >>
      [] a = "marseille" /\ b = "paris" ->
           << Train(8, Val(<<TrainSection(Missing), WalkSection>>)) >>
      [] a = "lyon" /\ b = "marseille" ->
           << Train(9, Val(<<TrainSection(Headsign(Val(<<"i","c","e"," ","9">>)))>>)),
              Train(10, Val(<<TrainSection(None)>>)) >>
      [] OTHER -> <<>>

\* How one HTTP exchange with the Journey Source ends: a body with its
\* journeys, a body without the "journeys" key, or an error of requests.
Failures == {"Timeout", "ConnectionError", "HTTPError"}
Outcomes == {"ok", "no_journeys"} \cup Failures

\* The JSON body of a successful exchange.
ResponseBody(a, b, net) ==
    [journeys |-> IF net = "no_journeys" THEN Missing ELSE Val(SourceJourneys(a, b))]

\* Mutant of get_journeys: an error of the exchange is logged and an empty
\* list returned.
get_journeys_ReturnsEmpty(a, b, net) ==
    IF net \in Failures
    THEN [raised |-> "none", value |-> Val(<<>>)]
    ELSE [raised |-> "none", value |-> get(ResponseBody(a, b, net), "journeys", Val(<<>>))]

\* SNCFAPIClient.get_journeys: requests.get and raise_for_status raise the
\* error of the exchange, every except clause logs and re-raises; otherwise
\* the journeys of the body, [] when the body has none.
get_journeys(a, b, net) ==
    IF net \in Failures
    THEN [raised |-> net, value |-> None]
    ELSE [raised |-> "none", value |-> get(ResponseBody(a, b, net), "journeys", Val(<<>>))]

\* The train numbers a user types.
TrainNumbers == {<<"6","6","1","1">>, <<"i","c","e">>}

\* The loop over the sections of one journey, from section i on:
\* "match" when a public_transport section has the number in its headsign
\* (the break), "none" when the sections are exhausted, "raised" when
\* display_informations is null.
RECURSIVE HeadsignScan(_, _, _)
HeadsignScan(secs, i, tn) ==
    IF i > Len(secs) THEN "none"
    ELSE IF secs[i].type # Val(PublicTransport) THEN HeadsignScan(secs, i + 1, tn)
    ELSE LET display_info == get(secs[i], "display_informations", Val(NoHeadsign)) IN
         IF ~IsVal(display_info) THEN "raised"
         ELSE LET headsign == get(display_info.v, "headsign", Val(<<>>)) IN
              IF ~IsVal(headsign) THEN "raised"
              ELSE IF contains(upper(tn), upper(headsign.v)) THEN "match"
              ELSE HeadsignScan(secs, i + 1, tn)

\* The loop over the journeys of one response, from journey k on, appending
\* to matching: the list and whether an exception left the loop.
RECURSIVE MatchFrom(_, _, _, _)
MatchFrom(js, k, tn, matching) ==
    IF k > Len(js) THEN [raised |-> FALSE, matching |-> matching]
    ELSE LET secs == get(js[k], "sections", Val(<<>>)) IN
         IF ~IsVal(secs) THEN [raised |-> TRUE, matching |-> matching]
         ELSE LET found == HeadsignScan(secs.v, 1, tn) IN
              IF found = "raised" THEN [raised |-> TRUE, matching |-> matching]
              ELSE MatchFrom(js, k + 1, tn,
                             IF found = "match" THEN Append(matching, js[k])
                             ELSE matching)

\* The two nested loops: for dep_idx, departure_id in enumerate(stations),
\* for arrival_id in stations[dep_idx + 1:], in the order they run.
StationPairs(pool) ==
    LET n == Len(pool)
        Pos == { <<i, j>> : i \in 1..n, j \in 1..n }
        Order == { <<i, j>> \in Pos : i < j }
        Rank(p) == Cardinality({ q \in Order :
                       q[1] < p[1] \/ (q[1] = p[1] /\ q[2] <= p[2]) })
    IN [k \in 1..Cardinality(Order) |->
           LET p == CHOOSE q \in Order : Rank(q) = k IN <<pool[p[1]], pool[p[2]]>>]

\* The body of the loops from pair k on.  An exception of get_journeys or
\* of the matching is caught, logged at debug level, and the loop continues
\* with the next pair.
RECURSIVE SearchFrom(_, _, _, _, _)
SearchFrom(pairs, nets, k, tn, matching) ==
    IF k > Len(pairs) THEN matching
    ELSE LET response == get_journeys(pairs[k][1], pairs[k][2], nets[k]) IN
         IF response.raised # "none"
         THEN SearchFrom(pairs, nets, k + 1, tn, matching)
         ELSE SearchFrom(pairs, nets, k + 1, tn,
                         MatchFrom(response.value.v, 1, tn, matching).matching)

\* SNCFAPIClient.search_train_by_number, nets[k] being how the k-th exchange
\* ends: the matching journeys; nothing is raised.
search_train_by_number(tn, pool, nets) ==
    [raised |-> "none",
     value |-> Val(SearchFrom(StationPairs(pool), nets, 1, tn, <<>>))]

\* The requests a search sends.
RequestLog(pairs, nets) ==
    [k \in 1..Len(pairs) |-> [from |-> pairs[k][1], to |-> pairs[k][2], net |-> nets[k]]]

\* The result of a call: which call it was, the error it raised ("none"
\* when it returned) and the value it returned.
NoResult == [call |-> "none", raised |-> "none", value |-> None]

\* No call of the client made yet.
IdleClient ==
    /\ stations = <<>>
    /\ train_number = <<>>
    /\ requests = <<>>
    /\ result = NoResult

-----------------------------------------------------------------------------
(* The reload logic of the app (src/src/frontend/app.py, main)             *)

StationBoard == "Station Board"
TrainNumber == "Train Number"

\* current_settings (app.py:208-227).  The dict of a Station Board has no
\* "train_number" key and the dict of a Train Number search no "board_type"
\* key; the station, the date and the limit keep their defaults.
CurrentSettings(mode, board_type, number, provider) ==
    IF mode = StationBoard
    THEN [mode |-> Val(mode), board_type |-> Val(board_type),
          train_number |-> Missing, provider |-> Val(provider)]
    ELSE [mode |-> Val(mode), board_type |-> Missing,
          train_number |-> Val(number), provider |-> Val(provider)]

\* The {} that last_settings starts as (app.py:205).
NoSettings ==
    [mode |-> Missing, board_type |-> Missing, train_number |-> Missing,
     provider |-> Missing]

\* What the widgets show before the user touched them: radio index=0,
\* selectbox index=0, an empty text_input.
DefaultSettings == CurrentSettings(StationBoard, "Departures", "", All)

\* The settings a user can select.
SettingsChoices ==
    { CurrentSettings(StationBoard, b, "", p) :
          b \in {"Departures", "Arrivals"}, p \in {All, "OUIGO"} }
    \cup { CurrentSettings(TrainNumber, "", n, p) :
          n \in {"", "6611"}, p \in {All, "OUIGO"} }

\* st.session_state of a browser session that has not run main yet.
NewSession == [initial_load |-> Missing, last_settings |-> Missing]

\* app.py:201-205, the two keys are created on the first run.
InitSession(session) ==
    [initial_load |-> get(session, "initial_load", Val(TRUE)),
     last_settings |-> get(session, "last_settings", Val(NoSettings))]

\* Mutant of settings_changed: the comparison always reports a change.
settings_changed_Always(last_settings, settings) == TRUE

\* app.py:230
settings_changed(last_settings, settings) == last_settings # Val(settings)

\* Mutant of should_load: only the button and the page load trigger a load.
should_load_NeverOnChange(clicked, initial_load, mode, changed) ==
    \/ clicked
    \/ (initial_load /\ mode = Val(StationBoard))

\* app.py:234-238
should_load(clicked, initial_load, mode, changed) ==
    \/ clicked
    \/ (initial_load /\ mode = Val(StationBoard))
    \/ (changed /\ ~initial_load)

\* The journey lists the Journey Source answers the app with: none, one
\* that qualifies, one with a transfer, a regional train, two that qualify,
\* one the formatter cannot read (no arrival_date_time) and one the
\* classifier cannot read (null sections).
AppResponses ==
    { <<>>,
      << Scenario(Val(0), Val(<<Inoui>>)) >>,
      << Scenario(Val(1), Val(<<Inoui>>)) >>,
      << Scenario(Val(0), Val(<<Ter>>)) >>,
      << Scenario(Val(0), Val(<<Ouigo>>)),
         JourneyOf(Val(0), Val(<<Inoui>>), Val(TS(1, 7, 0, 0)), Val(TS(1, 11, 0, 0)), Val(14400)) >>,
      << JourneyOf(Val(0), Val(<<Ouigo>>), Val(TS(1, 9, 0, 0)), Missing, Val(6780)) >>,
      << Scenario(Val(0), None) >> }

\* app.py:255-313, the queries of one load.  On a Station Board an error of
\* get_journeys leaves the loop; search_train_by_number catches the error
\* of every request, so that a Train Number search whose requests fail
\* returns [].
LoadJourneys(mode, net, body) ==
    IF net \in Failures
    THEN IF mode = Val(StationBoard)
         THEN [raised |-> TRUE, all_journeys |-> <<>>]
         ELSE [raised |-> FALSE, all_journeys |-> <<>>]
    ELSE [raised |-> FALSE, all_journeys |-> body]

\* app.py:294, 318
provider_param(provider) == IF provider = Val(All) THEN None ELSE provider

\* app.py:350-354
sort_criterion(settings) ==
    IF settings.mode = Val(StationBoard) /\ settings.board_type = Val("Arrivals")
    THEN Arrival
    ELSE Departure

\* Mutant of EmptyWarning: one warning for both empty cases.
EmptyWarning_Same(all_journeys) == "no_journeys"

\* app.py:378-387, the warning of a load that kept nothing.
EmptyWarning(all_journeys) ==
    IF all_journeys # <<>> THEN "no_high_speed" ELSE "no_journeys"

\* What a rerun that does not load leaves behind.
NoLoad(session) ==
    [session_state |-> session, rendered |-> "nothing", queried |-> FALSE,
     source_raised |-> FALSE, all_journeys |-> <<>>, tgv_journeys |-> <<>>]

\* app.py:241-387, the rerun from the decision to load on.
LoadAndRender(session, settings, net, body, tb) ==
    LET loaded == [initial_load |-> Val(FALSE), last_settings |-> Val(settings)]
        none == [NoLoad(loaded) EXCEPT !.queried = TRUE]
    IN
    IF settings.mode = Val(TrainNumber) /\ settings.train_number = Val("")
    THEN [NoLoad(loaded) EXCEPT !.rendered = "enter_number"]
    ELSE LET load == LoadJourneys(settings.mode, net, body) IN
         IF load.raised
         THEN [none EXCEPT !.rendered = "error", !.source_raised = TRUE]
         ELSE LET c == filter_tgv_journeys(load.all_journeys,
                                           provider_param(settings.provider)) IN
              IF c.raised
              THEN [none EXCEPT !.rendered = "error",
                                !.all_journeys = load.all_journeys]
              ELSE IF c.filtered = <<>>
              THEN [none EXCEPT !.rendered = EmptyWarning(load.all_journeys),
                                !.all_journeys = load.all_journeys]
              ELSE [none EXCEPT
                       !.rendered =
                           IF format_journey_data(c.filtered,
                                                  sort_criterion(settings), tb).raised
                           THEN "uncaught"
                           ELSE "table",
                       !.all_journeys = load.all_journeys,
                       !.tgv_journeys = c.filtered]

\* main (app.py:63-387) on a session: the new session state, what was
\* rendered, whether the Journey Source was queried and whether it raised.
main(session, settings, clicked, net, body, tb) ==
    LET state == InitSession(session) IN
    IF should_load(clicked, state.initial_load.v, settings.mode,
                   settings_changed(state.last_settings, settings))
    THEN LoadAndRender(state, settings, net, body, tb)
    ELSE NoLoad(state)

\* The app has not run yet.
IdleApp ==
    /\ session_state = NewSession
    /\ current_settings = NoSettings
    /\ search_clicked = FALSE
    /\ rendered = "nothing"
    /\ queried = FALSE
    /\ last_load = "none"

-----------------------------------------------------------------------------
(* Logging configuration (src/src/config/logger.py)                        *)

\* The threads that call get_logger.  configure is a classmethod on
\* class state and takes no lock.
Threads == {"script_runner_1", "script_runner_2"}

\* get_logger calls a thread makes.
MaxCalls == 2

\* The handlers of kind k the root logger holds.
HandlerCount(k) == Cardinality({ i \in 1..Len(handlers) : handlers[i] = k })

\* No get_logger call made yet: LoggerConfig._configured = False
\* (logger.py:23) and the root logger has no handler.
IdleLogger ==
    /\ thread_pc = [t \in Threads |-> "idle"]
    /\ calls = [t \in Threads |-> 0]
    /\ configured = FALSE
    /\ handlers = <<>>
    /\ emitted = [console |-> 0, file |-> 0]

-----------------------------------------------------------------------------
(* check_connection of the station tooling                                 *)
(* (src/src/data/scripts/manage_stations.py:75-99)                         *)

\* The any(...) over the sections of one journey, from section i on:
\* [raised, found].  any stops at the first section that is high-speed.
RECURSIVE AnyHighSpeed(_, _)
AnyHighSpeed(sections, i) ==
    IF i > Len(sections) THEN [raised |-> FALSE, found |-> FALSE]
    ELSE LET section == sections[i] IN
         IF get(section, "type", None) # Val(PublicTransport)
         THEN AnyHighSpeed(sections, i + 1)
         ELSE LET display_info == get(section, "display_informations", Val(EmptyDict)) IN
              IF display_info = None THEN [raised |-> TRUE, found |-> FALSE]
              ELSE LET pm == get(display_info.v, "physical_mode", Val(<<>>)) IN
                   IF pm = None THEN [raised |-> TRUE, found |-> FALSE]
                   ELSE IF is_high_speed(lower(pm.v))
                        THEN [raised |-> FALSE, found |-> TRUE]
                        ELSE AnyHighSpeed(sections, i + 1)

\* The condition of the list comprehension for one journey.
IsHighSpeedJourney(j) ==
    IF get(j, "nb_transfers", Val(0)) # Val(0) THEN [raised |-> FALSE, found |-> FALSE]
    ELSE LET sections == get(j, "sections", Val(<<>>)) IN
         IF sections = None THEN [raised |-> TRUE, found |-> FALSE]
         ELSE AnyHighSpeed(sections.v, 1)

\* hs_journeys, the list comprehension from journey i on: [raised, n] with
\* n the length of the list.
RECURSIVE HsJourneys(_, _, _)
HsJourneys(js, i, n) ==
    IF i > Len(js) THEN [raised |-> FALSE, n |-> n]
    ELSE LET r == IsHighSpeedJourney(js[i]) IN
         IF r.raised THEN [raised |-> TRUE, n |-> n]
         ELSE HsJourneys(js, i + 1, IF r.found THEN n + 1 ELSE n)

\* check_connection, the exchange ending as net with the journeys js: an
\* exception of get_journeys or of the comprehension is caught and gives
\* False.
check_connection(net, js) ==
    IF net \in Failures THEN FALSE
    ELSE LET r == HsJourneys(js, 1, 0) IN
         IF r.raised THEN FALSE ELSE r.n > 0

-----------------------------------------------------------------------------
(* The callers                                                             *)

\* No call of the classifier or the formatter made yet.
IdleUtils ==
    /\ pc = "ready"
    /\ provider_filter = None
    /\ filtered = <<>>
    /\ kept = <<>>
    /\ sort_by = Departure
    /\ df = <<>>
    /\ full = <<>>
    /\ runs = <<>>

\* No call made yet, of any component.
Idle ==
    /\ IdleUtils
    /\ IdleClient
    /\ IdleApp
    /\ IdleLogger
    /\ connection = None

\* The classifier does not sort.
InitClassifier ==
    /\ journeys \in SeqsUpTo(ClassifierJourneys, MaxJourneys)
    /\ tiebreak = StableOrder
    /\ Idle

InitFormatter ==
    /\ journeys \in SeqsUpTo(FormatterJourneys, MaxJourneys)
    /\ tiebreak \in TieOrders
    /\ Idle

\* tgv_journeys = filter_tgv_journeys(all_journeys, provider_param)
\* (app.py:295, app.py:319)
CallFilter ==
    /\ pc = "ready"
    /\ \E pf \in ProviderFilters :
         LET r == filter_tgv_journeys(journeys, pf) IN
         /\ provider_filter' = pf
         /\ journeys' = r.journeys
         /\ IF r.raised
            THEN /\ pc' = "filter_raised"
                 /\ UNCHANGED <<filtered, kept>>
            ELSE /\ pc' = "filtered"
                 /\ filtered' = r.filtered
                 /\ kept' = r.kept
    /\ UNCHANGED <<sort_by, df, full, tiebreak, runs>>
    /\ UNCHANGED <<clientVars, appVars, loggerVars, connection>>

\* df, _full_journeys = format_journey_data(tgv_journeys, sort_by=...)
\* (app.py:356)
CallFormat ==
    /\ pc = "ready"
    /\ \E sb \in SortBys :
         LET r == format_journey_data(journeys, sb, tiebreak) IN
         /\ sort_by' = sb
         /\ journeys' = r.journeys
         /\ IF r.raised
            THEN /\ pc' = "format_raised"
                 /\ UNCHANGED <<df, full>>
            ELSE /\ pc' = "formatted"
                 /\ df' = r.df
                 /\ full' = r.full
    /\ UNCHANGED <<provider_filter, filtered, kept, tiebreak, runs>>
    /\ UNCHANGED <<clientVars, appVars, loggerVars, connection>>

\* One pass of app.py:293-356: the journeys are classified and, when any
\* is left (app.py:330), formatted.  runs records the arguments and the
\* results of each pass.
RunPipeline ==
    /\ pc = "ready"
    /\ Len(runs) < MaxRuns
    /\ \E pf \in PipelineFilters, sb \in PipelineSortBys :
         \E c \in {filter_tgv_journeys(journeys, pf)} :
         \E f \in {format_journey_data(c.filtered, sb, tiebreak)} :
         LET formats == ~c.raised /\ c.filtered # <<>>
             raised == c.raised \/ (formats /\ f.raised)
         IN
         /\ provider_filter' = pf
         /\ sort_by' = sb
         /\ journeys' = c.journeys
         /\ filtered' = IF c.raised THEN filtered
                        ELSE IF formats THEN f.journeys ELSE c.filtered
         /\ kept' = IF c.raised THEN kept ELSE c.kept
         /\ df' = IF formats /\ ~f.raised THEN f.df ELSE df
         /\ full' = IF formats /\ ~f.raised THEN f.full ELSE full
         /\ runs' = Append(runs,
                 [provider_filter |-> pf,
                  sort_by |-> sb,
                  raised |-> raised,
                  filtered |-> IF c.raised THEN <<>> ELSE c.filtered,
                  df |-> IF formats /\ ~f.raised THEN f.df ELSE <<>>])
    /\ UNCHANGED <<pc, tiebreak>>
    /\ UNCHANGED <<clientVars, appVars, loggerVars, connection>>

InitRecord ==
    /\ journeys \in { <<j>> : j \in RecordJourneys }
    /\ tiebreak \in TieOrders
    /\ Idle

InitPipeline ==
    /\ journeys \in SeqsUpTo(PipelineJourneys, MaxJourneys)
    /\ tiebreak \in TieOrders
    /\ Idle

NextClassifier == CallFilter

NextRecord == CallFormat

NextPipeline == RunPipeline

Next == CallFilter \/ CallFormat

\* The classifier on every list of classifier journeys.
SpecClassifier == InitClassifier /\ [][NextClassifier]_vars

\* The classifier and the formatter on every list of formatter journeys.
SpecFormatter == InitFormatter /\ [][Next]_vars

\* The formatter on every list of one journey.
SpecRecord == InitRecord /\ [][NextRecord]_vars

\* The classifier followed by the formatter, run again and again on the
\* list the caller holds.
SpecPipeline == InitPipeline /\ [][NextPipeline]_vars

-----------------------------------------------------------------------------
(* Calls of the Journey Source client                                      *)

\* The station lists a caller passes: the station ids in any order, each
\* at most once (the keys of the station configuration).
StationPools ==
    { pool \in SeqsUpTo(StationIds, Cardinality(StationIds)) :
          \A i, k \in 1..Len(pool) : i # k => pool[i] # pool[k] }

InitClient ==
    /\ stations \in StationPools
    /\ train_number \in TrainNumbers
    /\ requests = <<>>
    /\ result = NoResult
    /\ journeys = <<>>
    /\ tiebreak = StableOrder
    /\ IdleUtils
    /\ IdleApp
    /\ IdleLogger
    /\ connection = None

\* client.get_journeys(a, b), the exchange ending as net.
GetJourneys ==
    /\ result.call = "none"
    /\ \E a \in StationIds, net \in Outcomes :
       \E b \in StationIds \ {a} :
       \E r \in {get_journeys(a, b, net)} :
          /\ requests' = <<[from |-> a, to |-> b, net |-> net]>>
          /\ result' = [call |-> "get_journeys", raised |-> r.raised, value |-> r.value]
    /\ UNCHANGED <<stations, train_number>>
    /\ UNCHANGED <<utilsVars, appVars, loggerVars, connection>>

\* client.search_train_by_number(train_number, stations), the k-th exchange
\* ending as nets[k].
SearchTrainByNumber ==
    /\ result.call = "none"
    /\ \E nets \in [1..Len(StationPairs(stations)) -> Outcomes] :
       \E r \in {search_train_by_number(train_number, stations, nets)} :
          /\ requests' = RequestLog(StationPairs(stations), nets)
          /\ result' = [call |-> "search_train_by_number",
                        raised |-> r.raised, value |-> r.value]
    /\ UNCHANGED <<stations, train_number>>
    /\ UNCHANGED <<utilsVars, appVars, loggerVars, connection>>

NextClient == GetJourneys \/ SearchTrainByNumber

\* One call of the client on every station pool.
SpecClient == InitClient /\ [][NextClient]_vars

-----------------------------------------------------------------------------
(* Reruns of the app                                                       *)

InitApp ==
    /\ journeys = <<>>
    /\ tiebreak \in TieOrders
    /\ Idle

\* One run of main: the widgets hold `settings`, the button was clicked or
\* not, and the Journey Source, if queried, fails as net or answers body.
\* The first run of a session has the defaults of the widgets and no click,
\* since nothing was rendered before it.  journeys and filtered take the
\* all_journeys and tgv_journeys of the run.
Rerun ==
    /\ \E settings \in SettingsChoices, clicked \in BOOLEAN,
          net \in {"ok"} \cup Failures, body \in AppResponses :
          /\ session_state = NewSession => (settings = DefaultSettings /\ ~clicked)
          /\ \E r \in {main(session_state, settings, clicked, net, body, tiebreak)} :
                /\ session_state' = r.session_state
                /\ current_settings' = settings
                /\ search_clicked' = clicked
                /\ rendered' = r.rendered
                /\ queried' = r.queried
                /\ last_load' = IF ~r.queried THEN last_load
                                ELSE IF r.source_raised THEN "raised"
                                ELSE "returned"
                /\ journeys' = r.all_journeys
                /\ filtered' = r.tgv_journeys
    /\ UNCHANGED <<pc, provider_filter, kept, sort_by, df, full, tiebreak, runs>>
    /\ UNCHANGED <<clientVars, loggerVars, connection>>

NextApp == Rerun

\* The reruns of one browser session.
SpecApp == InitApp /\ [][NextApp]_vars

-----------------------------------------------------------------------------
(* get_logger calls of concurrent threads                                  *)

InitLogger ==
    /\ journeys = <<>>
    /\ tiebreak = StableOrder
    /\ Idle

\* get_logger calls LoggerConfig.configure, which reads _configured
\* (logger.py:33): when set it returns and get_logger returns the logger;
\* otherwise the thread goes on to build and install the handlers.
EnterConfigure(t) ==
    /\ thread_pc[t] = "idle"
    /\ calls[t] < MaxCalls
    /\ IF configured
       THEN /\ calls' = [calls EXCEPT ![t] = @ + 1]
            /\ UNCHANGED thread_pc
       ELSE /\ thread_pc' = [thread_pc EXCEPT ![t] = "add_console"]
            /\ UNCHANGED calls
    /\ UNCHANGED <<configured, handlers, emitted>>
    /\ UNCHANGED <<utilsVars, clientVars, appVars, connection>>

\* logger.py:55
AddConsoleHandler(t) ==
    /\ thread_pc[t] = "add_console"
    /\ handlers' = Append(handlers, "console")
    /\ thread_pc' = [thread_pc EXCEPT ![t] = "add_file"]
    /\ UNCHANGED <<calls, configured, emitted>>
    /\ UNCHANGED <<utilsVars, clientVars, appVars, connection>>

\* logger.py:56
AddFileHandler(t) ==
    /\ thread_pc[t] = "add_file"
    /\ handlers' = Append(handlers, "file")
    /\ thread_pc' = [thread_pc EXCEPT ![t] = "set_configured"]
    /\ UNCHANGED <<calls, configured, emitted>>
    /\ UNCHANGED <<utilsVars, clientVars, appVars, connection>>

\* logger.py:58, then get_logger returns the logger.
SetConfigured(t) ==
    /\ thread_pc[t] = "set_configured"
    /\ configured' = TRUE
    /\ thread_pc' = [thread_pc EXCEPT ![t] = "idle"]
    /\ calls' = [calls EXCEPT ![t] = @ + 1]
    /\ UNCHANGED <<handlers, emitted>>
    /\ UNCHANGED <<utilsVars, clientVars, appVars, connection>>

\* A thread that holds a logger logs a line at INFO or above: the record
\* propagates to the root logger, and every handler it holds writes it.
LogLine(t) ==
    /\ thread_pc[t] = "idle"
    /\ calls[t] > 0
    /\ emitted' = [console |-> HandlerCount("console"), file |-> HandlerCount("file")]
    /\ UNCHANGED <<thread_pc, calls, configured, handlers>>
    /\ UNCHANGED <<utilsVars, clientVars, appVars, connection>>

NextLogger ==
    \E t \in Threads :
        \/ EnterConfigure(t)
        \/ AddConsoleHandler(t)
        \/ AddFileHandler(t)
        \/ SetConfigured(t)
        \/ LogLine(t)

\* The threads interleave at every step of configure: no lock is held.
SpecLogger == InitLogger /\ [][NextLogger]_vars

-----------------------------------------------------------------------------
(* check_connection on the journeys of a station pair                      *)

InitTooling ==
    /\ journeys \in SeqsUpTo(ClassifierJourneys, MaxJourneys)
    /\ tiebreak = StableOrder
    /\ Idle

\* check_connection(client, from_id, to_id): the Journey Source fails as
\* net or answers with `journeys`.
CheckConnection ==
    /\ connection = None
    /\ \E net \in {"ok"} \cup Failures :
          /\ requests' = <<[from |-> "paris", to |-> "lyon", net |-> net]>>
          /\ connection' = Val(check_connection(net, journeys))
    /\ UNCHANGED <<stations, train_number, result>>
    /\ UNCHANGED <<utilsVars, appVars, loggerVars>>

NextTooling == CheckConnection

\* check_connection on every list of classifier journeys.
SpecTooling == InitTooling /\ [][NextTooling]_vars

-----------------------------------------------------------------------------
(* Vocabulary of the claims                                                *)

Returned == pc = "filtered"

\* The positions of the input that the returned list holds.
KeptSet == {kept[k] : k \in 1..Len(kept)}

SectionsOf(j) == IF IsVal(j.sections) THEN j.sections.v ELSE <<>>

IsPublicTransport(s) == s.type = Val(PublicTransport)

HasPublicTransport(j) ==
    \E k \in 1..Len(SectionsOf(j)) : IsPublicTransport(SectionsOf(j)[k])

FirstPublicTransport(j) ==
    LET secs == SectionsOf(j)
        k == CHOOSE k \in 1..Len(secs) :
                 /\ IsPublicTransport(secs[k])
                 /\ \A m \in 1..(k - 1) : ~IsPublicTransport(secs[m])
    IN secs[k]

PhysicalModeOf(s) ==
    IF IsVal(s.display_informations)
       /\ IsVal(s.display_informations.v.physical_mode)
    THEN s.display_informations.v.physical_mode.v
    ELSE <<>>

CommercialModeOf(s) ==
    IF IsVal(s.display_informations)
    THEN s.display_informations.v.commercial_mode
    ELSE Missing

\* "contains grande vitesse or high speed", whatever the letter case.
HighSpeedSection(s) ==
    \/ contains(GrandeVitesse, lower(PhysicalModeOf(s)))
    \/ contains(HighSpeed, lower(PhysicalModeOf(s)))

\* A provider filter is active when it names an operator: it is neither
\* None, nor "All", nor empty.
Active(pf) == IsVal(pf) /\ pf.v \notin {All, ""}

\* Section s is high-speed and, under an active filter, of the filter's
\* operator.
SectionQualifies(s, pf) ==
    /\ HighSpeedSection(s)
    /\ Active(pf) => CommercialModeOf(s) = pf

\* The first public_transport section of j exists and qualifies.
FirstSectionQualifies(j, pf) ==
    /\ HasPublicTransport(j)
    /\ SectionQualifies(FirstPublicTransport(j), pf)

Direct(j) == j.nb_transfers = Val(0)

\* Sequence a is a sub-sequence of sequence b.
RECURSIVE IsSubsequence(_, _)
IsSubsequence(a, b) ==
    IF a = <<>> THEN TRUE
    ELSE IF b = <<>> THEN FALSE
    ELSE IF Head(a) = Head(b) THEN IsSubsequence(Tail(a), Tail(b))
    ELSE IsSubsequence(a, Tail(b))

-----------------------------------------------------------------------------
(* C1                                                                      *)

-----------------------------------------------------------------------------
(* C2                                                                      *)

\* Journey j with the physical_mode of its first public_transport section
\* upper-cased (up = TRUE) or lower-cased (up = FALSE).
Recased(j, up) ==
    IF ~HasPublicTransport(j) THEN j
    ELSE LET secs == SectionsOf(j)
             first == FirstPublicTransport(j)
             di == first.display_informations
         IN IF ~(IsVal(di) /\ IsVal(di.v.physical_mode)) THEN j
            ELSE LET pm == di.v.physical_mode.v
                     recased == Val([di.v EXCEPT !.physical_mode =
                                        Val(IF up THEN upper(pm) ELSE lower(pm))])
                     k == CHOOSE k \in 1..Len(secs) :
                              /\ IsPublicTransport(secs[k])
                              /\ \A m \in 1..(k - 1) : ~IsPublicTransport(secs[m])
                 IN [j EXCEPT !.sections =
                        Val([secs EXCEPT ![k].display_informations = recased])]

\* C2: physical-mode matching is case-insensitive: whether a returned call
\* kept a journey equals what the classifier decides for the same journey
\* with the physical_mode of its first public_transport section upper-cased,
\* and with it lower-cased.
C2_CaseInsensitive ==
    Returned =>
        \A i \in 1..Len(journeys) : \A up \in BOOLEAN :
            LET r == ClassifyJourney(Recased(journeys[i], up), provider_filter)
            IN ~r.raised /\ (i \in KeptSet <=> r.n > 0)

\* A returned call that kept a direct journey whose physical_mode is written
\* in capitals ("TRAIN GRANDE VITESSE") and one in mixed case ("High Speed").
C2_Witness ==
    /\ Returned
    /\ \E i \in KeptSet :
          /\ Direct(journeys[i])
          /\ PhysicalModeOf(FirstPublicTransport(journeys[i])) = TRAIN_GRANDE_VITESSE
    /\ \E i \in KeptSet :
          /\ Direct(journeys[i])
          /\ PhysicalModeOf(FirstPublicTransport(journeys[i])) = High_Speed

-----------------------------------------------------------------------------
(* C3                                                                      *)

\* C3: under an active provider filter every journey a returned call kept
\* has, in its first public_transport section, a commercial_mode equal to the
\* filter (the same string, letter case included); a journey whose
\* commercial_mode is another label, differs in case, is null or is absent
\* is not kept.
C3_ProviderExact ==
    (Returned /\ Active(provider_filter)) =>
        \A i \in 1..Len(journeys) :
            /\ i \in KeptSet =>
                  /\ HasPublicTransport(journeys[i])
                  /\ CommercialModeOf(FirstPublicTransport(journeys[i])) = provider_filter
            /\ ( /\ HasPublicTransport(journeys[i])
                 /\ CommercialModeOf(FirstPublicTransport(journeys[i]))
                        \in {Val("TGV INOUI"), Val("ouigo"), None, Missing}
                 /\ provider_filter = Val("OUIGO") ) => i \notin KeptSet

\* A returned call under filter "OUIGO" that kept a journey and dropped a
\* direct high-speed journey whose commercial_mode is "TGV INOUI", "ouigo",
\* null or absent.
C3_Witness ==
    /\ Returned
    /\ provider_filter = Val("OUIGO")
    /\ KeptSet # {}
    /\ \E i \in 1..Len(journeys) :
          /\ i \notin KeptSet
          /\ Direct(journeys[i])
          /\ HasPublicTransport(journeys[i])
          /\ HighSpeedSection(FirstPublicTransport(journeys[i]))
          /\ CommercialModeOf(FirstPublicTransport(journeys[i]))
                 \in {Val("TGV INOUI"), Val("ouigo"), None, Missing}

-----------------------------------------------------------------------------
(* C4                                                                      *)

\* C4: with provider_filter None or "All" a returned call kept every direct
\* journey whose first public_transport section is high-speed, whatever its
\* commercial_mode; and under an active filter the positions kept are a
\* sub-sequence of the positions kept by the call with no filter and by the
\* call with "All".
C4_NoFilterSentinel ==
    Returned =>
        /\ provider_filter \in {None, Val(All)} =>
              \A i \in 1..Len(journeys) :
                  ( /\ Direct(journeys[i])
                    /\ HasPublicTransport(journeys[i])
                    /\ HighSpeedSection(FirstPublicTransport(journeys[i])) )
                  => i \in KeptSet
        /\ Active(provider_filter) =>
              \A none \in {None, Val(All)} :
                  LET r == filter_tgv_journeys(journeys, none)
                  IN /\ ~r.raised
                     /\ IsSubsequence(kept, r.kept)
                     /\ IsSubsequence(filtered, r.filtered)

\* A returned call under an active filter that kept a journey and dropped
\* one that the call with no filter keeps.
C4_Witness ==
    /\ Returned
    /\ Active(provider_filter)
    /\ Len(kept) > 0
    /\ Len(kept) < Len(filter_tgv_journeys(journeys, None).kept)

-----------------------------------------------------------------------------
(* C5                                                                      *)

\* C5: the list a returned call produced is a sub-sequence of its input:
\* its k-th element is the input journey at position kept[k], and the
\* positions kept are strictly increasing (same relative order, each input
\* position at most once, nothing from outside the input).
C5_OutputIsSubsequence ==
    Returned =>
        /\ Len(filtered) = Len(kept)
        /\ \A k \in 1..Len(kept) :
              /\ kept[k] \in 1..Len(journeys)
              /\ filtered[k] = journeys[kept[k]]
        /\ \A k, l \in 1..Len(kept) : k < l => kept[k] < kept[l]
        /\ IsSubsequence(filtered, journeys)

\* A returned call that kept two different journeys, one of them with two
\* qualifying public_transport sections.
C5_Witness ==
    /\ Returned
    /\ Len(kept) = 2
    /\ journeys[1] # journeys[2]
    /\ \E i \in KeptSet :
          \E a, b \in 1..Len(SectionsOf(journeys[i])) :
              /\ a < b
              /\ IsPublicTransport(SectionsOf(journeys[i])[a])
              /\ IsPublicTransport(SectionsOf(journeys[i])[b])
              /\ SectionQualifies(SectionsOf(journeys[i])[a], provider_filter)
              /\ SectionQualifies(SectionsOf(journeys[i])[b], provider_filter)

-----------------------------------------------------------------------------
(* C6                                                                      *)

\* C6: neither filter_tgv_journeys nor format_journey_data mutates the list
\* the caller passed: every step of either call, returning or raising,
\* leaves the journey sequence with the same length, order and contents.
C6_InputsNotMutated == [][journeys' = journeys]_vars

\* A format_journey_data call returned a frame whose rows the sort put in
\* another order than the journeys they come from.
C6_Witness ==
    /\ pc = "formatted"
    /\ Len(journeys) = 2
    /\ journeys[1] # journeys[2]
    /\ df[1].ID = 1
    /\ df[2].ID = 0
    /\ df[1].Departure # df[2].Departure

-----------------------------------------------------------------------------
(* C7                                                                      *)

\* C7: filter_tgv_journeys never fails: whatever field of a journey is
\* absent or null, the call returns a list and raises nothing.
C7_FilterNeverRaises == pc # "filter_raised"

-----------------------------------------------------------------------------
(* C8                                                                      *)

Has(x) == x # Missing

\* Journey j has sections, a public_transport section, and in the first of
\* these display_informations and a physical_mode.
HasSectionFields(j) ==
    /\ Has(j.sections)
    /\ HasPublicTransport(j)
    /\ Has(FirstPublicTransport(j).type)
    /\ Has(FirstPublicTransport(j).display_informations)
    /\ IsVal(FirstPublicTransport(j).display_informations) =>
           Has(FirstPublicTransport(j).display_informations.v.physical_mode)

-----------------------------------------------------------------------------
(* C9                                                                      *)

\* C9: the first public_transport section decides alone.  A journey whose
\* first public_transport section does not qualify was not kept, even when a
\* later public_transport section qualifies; a direct journey whose first
\* public_transport section qualifies was kept, whatever sections that are
\* not public_transport precede it.
C9_FirstPublicTransportDecides ==
    Returned =>
        \A i \in 1..Len(journeys) :
            HasPublicTransport(journeys[i]) =>
                /\ ~SectionQualifies(FirstPublicTransport(journeys[i]), provider_filter)
                      => i \notin KeptSet
                /\ ( /\ Direct(journeys[i])
                     /\ SectionQualifies(FirstPublicTransport(journeys[i]), provider_filter) )
                      => i \in KeptSet

\* A returned call that dropped a direct journey whose second
\* public_transport section qualifies and whose first does not, and kept a
\* journey whose first section is not public_transport.
C9_Witness ==
    /\ Returned
    /\ \E i \in 1..Len(journeys) :
          /\ i \notin KeptSet
          /\ Direct(journeys[i])
          /\ Len(SectionsOf(journeys[i])) = 2
          /\ IsPublicTransport(SectionsOf(journeys[i])[1])
          /\ IsPublicTransport(SectionsOf(journeys[i])[2])
          /\ SectionQualifies(SectionsOf(journeys[i])[2], provider_filter)
    /\ \E i \in KeptSet :
          /\ Len(SectionsOf(journeys[i])) = 2
          /\ ~IsPublicTransport(SectionsOf(journeys[i])[1])

-----------------------------------------------------------------------------
(* C10                                                                     *)

Formatted == pc = "formatted"

\* C10: for every input and every sort_by, a returned format_journey_data
\* call gives each record the 0-based position, in the input list, of the
\* journey it was built from: the ids are the positions 0..n-1, each once,
\* and the record with id i shows the departure, arrival, duration, train
\* and stations of the journey at position i.
C10_IdIsInputIndex ==
    Formatted =>
        /\ Len(df) = Len(journeys)
        /\ \A k \in 1..Len(df) : df[k].ID \in 0..(Len(journeys) - 1)
        /\ \A k, l \in 1..Len(df) : k # l => df[k].ID # df[l].ID
        /\ \A k \in 1..Len(df) :
              LET source == RowOf(df[k].ID, journeys[df[k].ID + 1]) IN
              ~source.raised /\ df[k] = DisplayRow(source.row)

\* A returned call whose sort moved the record of the second journey in
\* front of the record of the first.
C10_Witness ==
    /\ Formatted
    /\ Len(df) = 2
    /\ df[1].ID = 1
    /\ df[2].ID = 0
    /\ journeys[1].departure_date_time # journeys[2].departure_date_time
    /\ journeys[1].arrival_date_time # journeys[2].arrival_date_time

-----------------------------------------------------------------------------
(* C11                                                                     *)

\* C11: in every record of a returned format_journey_data call, the status
\* is Delayed if and only if the departure delay or the arrival delay of the
\* record is greater than 5: delays (6, 0) give Delayed, delays (5, 5) give
\* On Time, and two delays that are zero or negative give On Time.
C11_DelayedIffOverFive ==
    Formatted =>
        \A k \in 1..Len(df) :
            /\ df[k].Status \in {"Delayed", "On Time"}
            /\ df[k].Status = "Delayed" <=> (df[k].DepDelay > 5 \/ df[k].ArrDelay > 5)
            /\ (df[k].DepDelay = 6 /\ df[k].ArrDelay = 0) => df[k].Status = "Delayed"
            /\ (df[k].DepDelay = 5 /\ df[k].ArrDelay = 5) => df[k].Status = "On Time"
            /\ (df[k].DepDelay <= 0 /\ df[k].ArrDelay <= 0) => df[k].Status = "On Time"

\* A returned call on a train that left 5 minutes 59 seconds late and
\* arrived 5 minutes late: the record is at the threshold and On Time.
C11_Witness ==
    /\ Formatted
    /\ Len(df) = 1
    /\ Len(SectionsOf(journeys[1])) = 1
    /\ SectionsOf(journeys[1])[1].departure_date_time = Val(TS(1, 8, 5, 59))
    /\ df[1].DepDelay = 5
    /\ df[1].ArrDelay = 5
    /\ df[1].Status = "On Time"

-----------------------------------------------------------------------------
(* C12                                                                     *)

\* The instant (date and time of day) that the sort of the last call goes
\* by, for the journey of the record at row k.
SortInstant(k) ==
    LET journey == journeys[df[k].ID + 1] IN
    IF lower(sort_by) = Arrival
    THEN strptime(journey.arrival_date_time.v)
    ELSE strptime(journey.departure_date_time.v)

\* C12: the records of a returned format_journey_data call are in
\* non-decreasing order of the full date-time of the departure of their
\* journey when sort_by is departure, and of its arrival when sort_by is
\* arrival (in any letter case); the order is that of the instants, not of
\* the HH:MM strings shown.
C12_SortedByInstant ==
    Formatted =>
        \A k, l \in 1..Len(df) : k < l => SortInstant(k) <= SortInstant(l)

\* A returned call sorted by departure whose first record shows 23:50 and
\* whose second record shows 00:10 of the next day, the journeys having been
\* passed in the other order.
C12_Witness ==
    /\ Formatted
    /\ sort_by = Departure
    /\ Len(df) = 2
    /\ df[1].Departure = <<"2", "3", ":", "5", "0">>
    /\ df[2].Departure = <<"0", "0", ":", "1", "0">>
    /\ df[1].ID = 1
    /\ SortInstant(1) < SortInstant(2)

-----------------------------------------------------------------------------
(* C13                                                                     *)

\* C13: the sort of format_journey_data is stable: of two records whose
\* journeys have the same sort instant, the one with the smaller ID (the one
\* that came first in the input) comes first in the frame.
C13_SortStable ==
    Formatted =>
        \A k, l \in 1..Len(df) :
            (k < l /\ SortInstant(k) = SortInstant(l)) => df[k].ID < df[l].ID

-----------------------------------------------------------------------------
(* C14                                                                     *)

\* A time field of a section is there: the key is present, not null and not
\* the empty str.
Present(x) == IsVal(x) /\ x.v # <<>>

\* The difference actual minus scheduled, in seconds.
SecondsLate(base, actual) == strptime(actual.v) - strptime(base.v)

\* delay is the difference diff (in seconds) in minutes: less than a minute
\* away from it, and exact when diff is a whole number of minutes.
InMinutes(delay, diff) ==
    /\ 60 * delay - diff < 60
    /\ diff - 60 * delay < 60
    /\ diff % 60 = 0 => 60 * delay = diff

\* What C14 asks of one delay, given the scheduled and the actual time.
DelayAsClaimed(delay, base, actual) ==
    IF Present(base) /\ Present(actual)
    THEN InMinutes(delay, SecondsLate(base, actual))
    ELSE delay = 0

\* C14: in the one record of a returned call on one journey, the departure
\* delay is what the scheduled and actual departure of the first
\* public_transport section give (their difference in minutes when both
\* are there, 0 otherwise), whatever the arrival times are, and the same
\* holds of the arrival delay; base 08:00 with actual 08:07 gives 7.
C14_DelaysIndependent ==
    (Formatted /\ Len(journeys) = 1 /\ HasPublicTransport(journeys[1])) =>
        LET section == FirstPublicTransport(journeys[1]) IN
        /\ DelayAsClaimed(df[1].DepDelay,
                          section.base_departure_date_time,
                          section.departure_date_time)
        /\ DelayAsClaimed(df[1].ArrDelay,
                          section.base_arrival_date_time,
                          section.arrival_date_time)
        /\ ( /\ section.base_departure_date_time = Val(TS(1, 8, 0, 0))
             /\ section.departure_date_time = Val(TS(1, 8, 7, 0)) )
           => df[1].DepDelay = 7

\* A returned call on a train scheduled at 08:00 that left at 08:07 and has
\* an actual but no scheduled arrival: departure delay 7, arrival delay 0.
C14_Witness ==
    /\ Formatted
    /\ Len(journeys) = 1
    /\ HasPublicTransport(journeys[1])
    /\ FirstPublicTransport(journeys[1]).base_departure_date_time = Val(TS(1, 8, 0, 0))
    /\ FirstPublicTransport(journeys[1]).departure_date_time = Val(TS(1, 8, 7, 0))
    /\ FirstPublicTransport(journeys[1]).base_arrival_date_time = Missing
    /\ FirstPublicTransport(journeys[1]).arrival_date_time = Val(TS(1, 10, 6, 0))
    /\ df[1].DepDelay = 7
    /\ df[1].ArrDelay = 0

-----------------------------------------------------------------------------
(* C15                                                                     *)

\* C15: calculate_delay_minutes returns the floor of the difference actual
\* minus scheduled, in seconds, over 60: the departure delay of the record
\* of a returned call is that floor, also for a train that left early (90
\* seconds early gives -2).
C15_DelayIsFloor ==
    (Formatted /\ Len(journeys) = 1 /\ HasPublicTransport(journeys[1])) =>
        LET section == FirstPublicTransport(journeys[1])
            base == section.base_departure_date_time
            actual == section.departure_date_time
        IN (Present(base) /\ Present(actual)) =>
               df[1].DepDelay = SecondsLate(base, actual) \div 60

-----------------------------------------------------------------------------
(* C16                                                                     *)

\* C16: for every duration d >= 0 seconds, the Duration of the record is
\* the hours, "h" and the minutes in two digits, where the minutes are in
\* 0..59 and hours * 60 + minutes is d with its leftover seconds dropped;
\* 6780 seconds give "1h53".
C16_DurationDisplay ==
    (Formatted /\ Len(journeys) = 1) =>
        LET d == journeys[1].duration.v IN
        d >= 0 =>
            /\ \E hours \in 0..(d \div 3600), minutes \in 0..59 :
                  /\ hours * 60 + minutes = d \div 60
                  /\ df[1].Duration = Decimal(hours) \o <<"h">> \o TwoDigits(minutes)
            /\ d = 6780 => df[1].Duration = <<"1", "h", "5", "3">>

\* A returned call on a journey of 3719 seconds (1 hour, 1 minute and 59
\* seconds), shown as "1h01".
C16_Witness ==
    /\ Formatted
    /\ Len(journeys) = 1
    /\ journeys[1].duration = Val(3719)
    /\ df[1].Duration = <<"1", "h", "0", "1">>

-----------------------------------------------------------------------------
(* C17                                                                     *)

\* The name of a stop, Missing when the stop, its stop_point or the name is
\* absent.
NameAt(stop) ==
    IF IsVal(stop) /\ IsVal(stop.v.stop_point)
    THEN stop.v.stop_point.v.name
    ELSE Missing

\* A key of the display_informations of a section, Missing when the
\* display_informations or the key is absent.
InfoAt(section, key) ==
    IF IsVal(section.display_informations)
    THEN section.display_informations.v[key]
    ELSE Missing

\* What a record shows for a field: "N/A" when the field is absent.
Shown(x) == IF x = Missing THEN Val(NA) ELSE x

\* C17: a returned call on one journey yields one record.  When the journey
\* has no public_transport section, or no sections, the provider, train,
\* from-station and to-station of the record are "N/A", both delays are 0
\* and the status is On Time.  When it has one, each of the four fields is
\* "N/A" if the first public_transport section lacks it and is the value of
\* the section otherwise.
C17_PlaceholdersPerField ==
    (Formatted /\ Len(journeys) = 1) =>
        /\ Len(df) = 1
        /\ IF HasPublicTransport(journeys[1])
           THEN LET section == FirstPublicTransport(journeys[1]) IN
                /\ df[1].From = Shown(NameAt(section.from))
                /\ df[1].To = Shown(NameAt(section.to))
                /\ df[1].Train = Shown(InfoAt(section, "headsign"))
                /\ df[1].Provider = Shown(InfoAt(section, "commercial_mode"))
           ELSE /\ df[1].From = Val(NA)
                /\ df[1].To = Val(NA)
                /\ df[1].Train = Val(NA)
                /\ df[1].Provider = Val(NA)
                /\ df[1].DepDelay = 0
                /\ df[1].ArrDelay = 0
                /\ df[1].Status = "On Time"

\* A returned call on a journey whose public_transport section, the second
\* of its sections, has no headsign: only the train number is "N/A".
C17_Witness ==
    /\ Formatted
    /\ Len(journeys) = 1
    /\ Len(SectionsOf(journeys[1])) = 2
    /\ HasPublicTransport(journeys[1])
    /\ InfoAt(FirstPublicTransport(journeys[1]), "headsign") = Missing
    /\ df[1].Train = Val(NA)
    /\ df[1].Provider = Val("TGV INOUI")
    /\ df[1].From = Val("Paris Gare de Lyon")
    /\ df[1].To = Val("Lyon Part-Dieu")

-----------------------------------------------------------------------------
(* C18                                                                     *)

\* A time of a section is a str that does not parse.
DoesNotParse(x) == Present(x) /\ ~Parses(x.v)

\* Journey j has one of the defects C18 names: no departure_date_time, no
\* arrival_date_time, no duration, or a scheduled or actual time of its
\* first public_transport section that does not parse.
LacksField(j) ==
    \/ j.departure_date_time = Missing
    \/ j.arrival_date_time = Missing
    \/ j.duration = Missing
    \/ /\ HasPublicTransport(j)
       /\ \/ DoesNotParse(FirstPublicTransport(j).base_departure_date_time)
          \/ DoesNotParse(FirstPublicTransport(j).departure_date_time)
          \/ DoesNotParse(FirstPublicTransport(j).base_arrival_date_time)
          \/ DoesNotParse(FirstPublicTransport(j).arrival_date_time)

\* C18: format_journey_data does not abort the batch: on a list in which
\* some journey has one of these defects and every other journey is one the
\* formatter reads, no error reaches the caller.
C18_NeverAbortsBatch ==
    ( /\ \E i \in 1..Len(journeys) : LacksField(journeys[i])
      /\ \A i \in 1..Len(journeys) :
            LacksField(journeys[i]) \/ ~RowOf(i - 1, journeys[i]).raised )
    => pc # "format_raised"

-----------------------------------------------------------------------------
(* C19                                                                     *)

\* C19: a returned format_journey_data call produced one record per input
\* journey, and its second result is the input list, same length and same
\* order, for either sort_by: each position of that list is the ID of
\* exactly one record, and the record of ID i is the one the journey at
\* position i of the second result gives.
C19_OneRecordPerJourney ==
    Formatted =>
        /\ full = journeys
        /\ Len(df) = Len(full)
        /\ \A i \in 1..Len(full) :
              Cardinality({k \in 1..Len(df) : df[k].ID = i - 1}) = 1
        /\ \A k \in 1..Len(df) :
              /\ df[k].ID + 1 \in 1..Len(full)
              /\ LET source == RowOf(df[k].ID, full[df[k].ID + 1]) IN
                 ~source.raised /\ DisplayRow(source.row) = df[k]

\* A returned call sorted by "Arrival" whose sort put the record of the
\* second of two different journeys first: the second result is still in
\* input order.
C19_Witness ==
    /\ Formatted
    /\ sort_by = ArrivalCapital
    /\ Len(df) = 2
    /\ Len(full) = 2
    /\ full[1] # full[2]
    /\ df[1].ID = 1
    /\ df[2].ID = 0
    /\ df[1].Arrival # df[2].Arrival

-----------------------------------------------------------------------------
(* C20                                                                     *)

-----------------------------------------------------------------------------
(* C24                                                                     *)

\* C24: calculate_delay_minutes truncates toward zero.  With diff the
\* difference actual minus scheduled in seconds: for diff >= 0 the delay is
\* the floor of diff / 60; for diff < 0 that is not a multiple of 60 it is
\* that floor plus one (one minute closer to zero), and for diff < 0 that
\* is a multiple of 60 it is the floor.  90 seconds early gives -1 and 30
\* seconds early gives 0.
C24_DelayTruncates ==
    (Formatted /\ Len(journeys) = 1 /\ HasPublicTransport(journeys[1])) =>
        LET section == FirstPublicTransport(journeys[1])
            base == section.base_departure_date_time
            actual == section.departure_date_time
            diff == SecondsLate(base, actual)
        IN (Present(base) /\ Present(actual)) =>
               /\ diff >= 0 => df[1].DepDelay = diff \div 60
               /\ (diff < 0 /\ diff % 60 # 0) => df[1].DepDelay = (diff \div 60) + 1
               /\ (diff < 0 /\ diff % 60 = 0) => df[1].DepDelay = diff \div 60
               /\ diff = -90 => df[1].DepDelay = -1
               /\ diff = -30 => df[1].DepDelay = 0

\* A returned call on a train scheduled at 08:00:00 that left at 07:58:30,
\* 90 seconds early: the departure delay is -1.
C24_Witness ==
    /\ Formatted
    /\ Len(journeys) = 1
    /\ HasPublicTransport(journeys[1])
    /\ FirstPublicTransport(journeys[1]).base_departure_date_time = Val(TS(1, 8, 0, 0))
    /\ FirstPublicTransport(journeys[1]).departure_date_time = Val(TS(1, 7, 58, 30))
    /\ df[1].DepDelay = -1

-----------------------------------------------------------------------------
(* C25                                                                     *)

\* C25: format_journey_data called with an empty journey sequence, for
\* either sort_by, returns an empty record sequence with the empty journey
\* sequence and raises nothing.
C25_EmptyInputReturnsEmpty ==
    (journeys = <<>> /\ pc \in {"formatted", "format_raised"}) =>
        /\ pc = "formatted"
        /\ df = <<>>
        /\ full = <<>>

-----------------------------------------------------------------------------
(* C21, C22, C28                                                           *)

\* Some request of the call failed with a network or API error.
SomeRequestFailed == \E k \in 1..Len(requests) : requests[k].net \in Failures

\* C21: a get_journeys call whose HTTP request timed out, failed to connect
\* or came back with an error status raised that same error and returned no
\* list; a call whose request succeeded raised nothing and returned a list.
C21_FailurePropagated ==
    result.call = "get_journeys" =>
        LET net == requests[1].net IN
        /\ net \in Failures => (result.raised = net /\ result.value = None)
        /\ net \notin Failures => (result.raised = "none" /\ IsVal(result.value))

\* A get_journeys call whose request timed out and that raised Timeout.
C21_Witness ==
    /\ result.call = "get_journeys"
    /\ requests[1].net = "Timeout"
    /\ result.raised = "Timeout"
    /\ result.value = None

\* C22: for get_journeys and for search_train_by_number, a call one of
\* whose requests failed with a network or API error ended in an error: it
\* returned no list, empty or partial.
C22_EmptyMeansNoJourney ==
    (result.call # "none" /\ SomeRequestFailed) =>
        /\ result.raised \in Failures
        /\ result.value = None

\* Journey j has a public_transport section whose headsign contains the
\* number tn, whatever the case of the letters.
HeadsignMatches(j, tn) ==
    /\ IsVal(j.sections)
    /\ \E i \in 1..Len(j.sections.v) :
          LET section == j.sections.v[i] IN
          /\ section.type = Val(PublicTransport)
          /\ IsVal(section.display_informations)
          /\ IsVal(section.display_informations.v.headsign)
          /\ contains(upper(tn), upper(section.display_informations.v.headsign.v))

\* get_journeys(a, b) did not fail during the call: it was requested and
\* returned, or it was not requested.
NotFailed(a, b) ==
    \A k \in 1..Len(requests) :
        (requests[k].from = a /\ requests[k].to = b) => requests[k].net = "ok"

\* C28: after search_train_by_number, for any two distinct stations a and b
\* of the pool, in whichever order the pool lists them, every journey that
\* get_journeys(a, b) returns and whose headsign matches the train number is
\* in the result; and no journey is in the result twice.
C28_AllStationPairs ==
    result.call = "search_train_by_number" =>
        LET found == result.value.v IN
        /\ \A x, y \in 1..Len(stations) :
              (x # y /\ NotFailed(stations[x], stations[y])) =>
                  LET response == SourceJourneys(stations[x], stations[y]) IN
                  \A k \in 1..Len(response) :
                      HeadsignMatches(response[k], train_number) =>
                          \E m \in 1..Len(found) : found[m] = response[k]
        /\ \A m, n \in 1..Len(found) : found[m] = found[n] => m = n

-----------------------------------------------------------------------------
(* C23, C26, C27                                                           *)

\* The last rerun loaded: it queried the Journey Source and neither the
\* load nor the rendering ended in an error.
LoadedWithoutError == queried /\ rendered \notin {"error", "uncaught"}

\* C23: after a load that completed without error, with all_journeys in
\* journeys and the qualifying journeys in filtered: when none qualifies
\* the "No direct high-speed trains found" warning is shown iff the Journey
\* Source returned at least one journey and the "No upcoming journeys
\* found" warning iff it returned none; when one qualifies the table is
\* rendered and neither warning is.
C23_EmptyCasesToldApart ==
    LoadedWithoutError =>
        /\ filtered = <<>> =>
              /\ rendered = "no_high_speed" <=> journeys # <<>>
              /\ rendered = "no_journeys" <=> journeys = <<>>
        /\ filtered # <<>> => rendered = "table"

\* A load with provider filter OUIGO that got one TGV INOUI journey and
\* kept none: the "No direct high-speed trains found" warning.
C23_Witness ==
    /\ LoadedWithoutError
    /\ current_settings.provider = Val("OUIGO")
    /\ journeys = << Scenario(Val(0), Val(<<Inoui>>)) >>
    /\ filtered = <<>>
    /\ rendered = "no_high_speed"

\* C26: a rerun in which the Journey Source raised shows the error and no
\* table; and from a state whose most recent load attempt raised, a rerun
\* with the same settings and no click on the button makes no query and
\* renders no table.
C26_NoAutomaticRetry ==
    [][ /\ (queried' /\ last_load' = "raised") => rendered' = "error"
        /\ ( /\ last_load = "raised"
             /\ current_settings' = current_settings
             /\ ~search_clicked' )
           => (~queried' /\ rendered' = "nothing") ]_vars

\* The rerun after a load that raised, same settings, no click: nothing was
\* queried and the recorded settings are the current ones.
C26_Witness ==
    /\ last_load = "raised"
    /\ ~queried
    /\ ~search_clicked
    /\ rendered = "nothing"
    /\ session_state.last_settings = Val(current_settings)

\* The settings of the rerun differ from the ones recorded at the last
\* load; a session that never loaded has recorded {}.
SettingsDiffer ==
    current_settings' # get(session_state, "last_settings", Val(NoSettings)).v

-----------------------------------------------------------------------------
(* C29                                                                     *)

\* C29: once some get_logger call has returned, and whatever the threads
\* did meanwhile, the root logger never holds more than one console handler
\* or more than one file handler, and a line is never written twice; when
\* no thread is inside configure it holds exactly one of each.
C29_ConfiguredOnce ==
    /\ HandlerCount("console") <= 1
    /\ HandlerCount("file") <= 1
    /\ emitted.console <= 1
    /\ emitted.file <= 1
    /\ ( /\ \A t \in Threads : thread_pc[t] = "idle"
         /\ \E t \in Threads : calls[t] > 0 )
       => (HandlerCount("console") = 1 /\ HandlerCount("file") = 1)

-----------------------------------------------------------------------------
(* C30                                                                     *)

\* C30: for every list of journeys the Journey Source returned for a
\* station pair, check_connection reports a connection if and only if
\* filter_tgv_journeys with no provider filter keeps at least one of them.
C30_ToolingAgreesWithClassifier ==
    (connection # None /\ requests[1].net = "ok") =>
        LET c == filter_tgv_journeys(journeys, None) IN
        connection = Val(TRUE) <=> (~c.raised /\ c.filtered # <<>>)

====
